---------------------------- MODULE Spec2Model ----------------------------
(***************************************************************************)
(* A model of pcdet/datasets/coda/coda_dataset.py (class CODataset and      *)
(* create_coda_infos): the info builder and its worker pool, the            *)
(* ground-truth database builder, the prediction serializer and the         *)
(* evaluation bridge.                                                       *)
(*                                                                          *)
(* Conventions.  Numbers are integers.  Angles are counted in quarter       *)
(* turns (1 = pi/2), so that -(pi/2 + ry) is -(1 + ry).  Python's 0-based   *)
(* positions are 1-based here: position k of a Python array is position     *)
(* k+1 of the sequence that models it, and the values stored in 'index'     *)
(* and 'gt_idx' are shifted the same way.  A lidar point is                 *)
(* <<x, y, z, intensity>>, a lidar box is <<x, y, z, l, w, h, yaw>>, a      *)
(* camera box is <<x, y, z, l, h, w, ry>>, an image shape is                *)
(* <<height, width>>.                                                       *)
(***************************************************************************)
EXTENDS Integers, Sequences, FiniteSets, TLC

VARIABLES
    \* one frame going through process_single_scene
    sc_pc, sc_objs, sc_opts, sc_info,
    \* get_infos called by create_coda_infos for one split
    gi_pc, gi_ids, gi_files, gi_workers, gi_futures, gi_order, gi_ret, gi_saved,
    \* create_groundtruth_database
    db_pc, db_infos, db_used, db_k, db_i, db_files, db_all, db_index, db_run,
    db_first,
    \* generate_prediction_dicts
    pd_pc, pd_ids, pd_preds, pd_cfg, pd_index, pd_annos, pd_out,
    \* evaluation
    ev_pc, ev_infos, ev_result,
    \* balanced_infos_resampling
    rs_pc, rs_infos, rs_names, rs_cls_infos, rs_ratios, rs_c, rs_draws,
    rs_sampled, rs_ret,
    \* get_fov_flag on its own
    fv_pc, fv_pts, fv_shape, fv_margin, fv_mask

sceneVars == <<sc_pc, sc_objs, sc_opts, sc_info>>
infosVars == <<gi_pc, gi_ids, gi_files, gi_workers, gi_futures, gi_order,
               gi_ret, gi_saved>>
dbVars == <<db_pc, db_infos, db_used, db_k, db_i, db_files, db_all, db_index,
            db_run, db_first>>
predVars == <<pd_pc, pd_ids, pd_preds, pd_cfg, pd_index, pd_annos, pd_out>>
evalVars == <<ev_pc, ev_infos, ev_result>>
resampleVars == <<rs_pc, rs_infos, rs_names, rs_cls_infos, rs_ratios, rs_c,
                  rs_draws, rs_sampled, rs_ret>>
fovVars == <<fv_pc, fv_pts, fv_shape, fv_margin, fv_mask>>
vars == <<sceneVars, infosVars, dbVars, predVars, evalVars, resampleVars,
          fovVars>>

\* what each component leaves alone
notScene == <<infosVars, dbVars, predVars, evalVars, resampleVars,
              fovVars>>
notInfos == <<sceneVars, dbVars, predVars, evalVars, resampleVars,
              fovVars>>
notDb == <<sceneVars, infosVars, predVars, evalVars, resampleVars,
              fovVars>>
notPred == <<sceneVars, infosVars, dbVars, evalVars, resampleVars,
              fovVars>>
notEval == <<sceneVars, infosVars, dbVars, predVars, resampleVars,
              fovVars>>
notResample == <<sceneVars, infosVars, dbVars, predVars, evalVars, fovVars>>
notFov == <<sceneVars, infosVars, dbVars, predVars, evalVars, resampleVars>>

---------------------------------------------------------------------------
(* Bounds of the model *)

\* the most labeled objects of one frame
MaxObjs == 3

\* the most workers of the pool of get_infos
MaxWorkers == 3

\* the most labeled objects of the first frame of the info file that
\* create_groundtruth_database reads
MaxDbObjs == 2

\* how many times in a row create_groundtruth_database is run
MaxRuns == 2

\* the most predictions of one batch element
MaxPreds == 2

\* the most info records of the corpus that evaluation reads
MaxEvalInfos == 4

---------------------------------------------------------------------------
(* Constants of the program *)

\* the margin generate_prediction_dicts passes to get_fov_flag
FovMargin == 5

---------------------------------------------------------------------------
(* Sequences as numpy uses them *)

Range(s) == {s[i] : i \in 1..Len(s)}

Abs(v) == IF v < 0 THEN -v ELSE v

\* the positions of s at which the mask m is true, ascending (np.argwhere)
TruePositions(m) == SelectSeq([i \in 1..Len(m) |-> i], LAMBDA i : m[i])

\* s[idx] for an integer index array idx
Take(s, idx) == [k \in 1..Len(idx) |-> s[idx[k]]]

\* s[m] for a boolean mask m: the kept elements in their order
MaskSelect(s, m) == Take(s, TruePositions(m))

\* number of true entries of a mask (flag.sum())
CountTrue(m) == Len(TruePositions(m))

\* all sequences over S of length at most n
SeqsUpTo(S, n) == UNION {[1..k -> S] : k \in 0..n}

---------------------------------------------------------------------------
(* The frame data the model runs on *)

IgnoreClass == "DontCare"

LabelClasses == {"Car", "Pedestrian", IgnoreClass}

\* what get_image_shape returns for every frame: <<height, width>>
ImageShape == <<4, 4>>

\* the calibration of every frame: focal length and principal point of P2;
\* R0 is the identity and V2C the axis change lidar (x forward, y left,
\* z up) -> camera (x right, y down, z forward), without translation
Calib == [f |-> 1, cu |-> 2, cv |-> 2]

\* calib.lidar_to_rect on one point
lidar_to_rect(p) == <<-p[2], -p[3], p[1]>>

\* calib.rect_to_lidar on one point
rect_to_lidar(p) == <<p[3], -p[1], -p[2]>>

\* calib.rect_to_img on one point: the pixel is (un/den, vn/den), kept as
\* numerators over the common denominator, and the depth
rect_to_img(p) ==
    [un |-> Calib.f * p[1] + Calib.cu * p[3],
     vn |-> Calib.f * p[2] + Calib.cv * p[3],
     den |-> p[3],
     depth |-> p[3]]

\* n/d >= c as floating point decides it (n/0 is +inf, -inf or nan)
PixGe(n, d, c) ==
    IF d > 0 THEN n >= c * d ELSE IF d < 0 THEN n <= c * d ELSE n > 0

\* n/d < c as floating point decides it
PixLt(n, d, c) ==
    IF d > 0 THEN n < c * d ELSE IF d < 0 THEN n > c * d ELSE n < 0

\* get_fov_flag without the test of the depth
FovFlagNoDepth(pts_rect, img_shape, margin) ==
    [i \in 1..Len(pts_rect) |->
        LET pts_img == rect_to_img(pts_rect[i])
        IN  /\ PixGe(pts_img.un, pts_img.den, 0 - margin)
            /\ PixLt(pts_img.un, pts_img.den, img_shape[2] + margin)
            /\ PixGe(pts_img.vn, pts_img.den, 0 - margin)
            /\ PixLt(pts_img.vn, pts_img.den, img_shape[1] + margin)]

\* CODataset.get_fov_flag: the mask over pts_rect
get_fov_flag(pts_rect, img_shape, margin) ==
    [i \in 1..Len(pts_rect) |->
        LET pts_img == rect_to_img(pts_rect[i])
            val_flag_1 == /\ PixGe(pts_img.un, pts_img.den, 0 - margin)
                          /\ PixLt(pts_img.un, pts_img.den, img_shape[2] + margin)
            val_flag_2 == /\ PixGe(pts_img.vn, pts_img.den, 0 - margin)
                          /\ PixLt(pts_img.vn, pts_img.den, img_shape[1] + margin)
            val_flag_merge == val_flag_1 /\ val_flag_2
        IN  val_flag_merge /\ pts_img.depth >= 0]

\* the extent of a lidar box along x and along y: a yaw of an odd number of
\* quarter turns swaps length and width
ExtentX(box) == IF box[7] % 2 = 0 THEN box[4] ELSE box[5]
ExtentY(box) == IF box[7] % 2 = 0 THEN box[5] ELSE box[4]

\* box_utils.in_hull(p, boxes_to_corners_3d(box)): p is in the closed hull
\* of the box's corners
in_hull(p, box) ==
    /\ 2 * Abs(p[1] - box[1]) <= ExtentX(box)
    /\ 2 * Abs(p[2] - box[2]) <= ExtentY(box)
    /\ 2 * Abs(p[3] - box[3]) <= box[6]

\* the two places an object stands at (camera frame, bottom centre)
LocA == <<-2, 1, 3>>
LocB == <<2, 1, 3>>

\* one line of a label file (object3d_kitti.Object3d)
LabelObject(cls, loc, ry) ==
    [cls_type |-> cls, truncation |-> 0, occlusion |-> 0, alpha |-> ry,
     box2d |-> IF loc = LocA THEN <<0, 0, 2, 2>> ELSE <<2, 0, 4, 2>>,
     h |-> 2, w |-> 2, l |-> 4, loc |-> loc, ry |-> ry,
     score |-> IF cls = IgnoreClass THEN -1 ELSE 1,
     level |-> IF loc = LocA THEN 0 ELSE 1]

LabelObjects ==
    {LabelObject(cls, loc, ry) :
        cls \in LabelClasses, loc \in {LocA, LocB}, ry \in {-1, 0}}

\* the velodyne file of every frame: points in the box at LocA (one of them
\* outside the image), a point in the box at LocB, points in no box
PointCloud ==
    << <<2, 2, 0, 7>>, <<4, 2, 0, 8>>, <<5, 2, 0, 9>>, <<1, 3, 0, 5>>,
       <<3, -2, 0, 6>>, <<-3, 2, 0, 4>>, <<6, 0, 1, 3>> >>

---------------------------------------------------------------------------
(* process_single_scene: the annotation set of one frame *)

\* NotIgnored without invert=True: the positions of the ignored objects
NotIgnoredNoInvert(obj_list) ==
    TruePositions([i \in 1..Len(obj_list) |-> obj_list[i].cls_type = IgnoreClass])

\* the positions of the objects that are not of the ignore class
\* (np.argwhere(np.isin(cls, ['DontCare'], invert=True)))
NotIgnored(obj_list) ==
    TruePositions([i \in 1..Len(obj_list) |-> obj_list[i].cls_type # IgnoreClass])

\* the annotations dict before the point count
BuildAnnotations(obj_list) ==
    LET n == Len(obj_list)
        index == NotIgnored(obj_list)
        raw == IF n > 0
               THEN [name |-> [i \in 1..n |-> obj_list[i].cls_type],
                     truncated |-> [i \in 1..n |-> obj_list[i].truncation],
                     occluded |-> [i \in 1..n |-> obj_list[i].occlusion],
                     alpha |-> [i \in 1..n |-> obj_list[i].alpha],
                     bbox |-> [i \in 1..n |-> obj_list[i].box2d],
                     dimensions |-> [i \in 1..n |->
                         <<obj_list[i].l, obj_list[i].h, obj_list[i].w>>],
                     location |-> [i \in 1..n |-> obj_list[i].loc],
                     rotation_y |-> [i \in 1..n |-> obj_list[i].ry],
                     score |-> [i \in 1..n |-> obj_list[i].score],
                     difficulty |-> [i \in 1..n |-> obj_list[i].level]]
               ELSE [name |-> <<>>, truncated |-> <<>>, occluded |-> <<>>,
                     alpha |-> <<>>, bbox |-> <<>>, dimensions |-> <<>>,
                     location |-> <<>>, rotation_y |-> <<>>, score |-> <<>>,
                     difficulty |-> <<>>]
        loc == Take(raw.location, index)
        dims == Take(raw.dimensions, index)
        rots == Take(raw.rotation_y, index)
        gt_boxes_lidar ==
            [k \in 1..Len(index) |->
                LET loc_lidar == rect_to_lidar(loc[k])
                IN  <<loc_lidar[1], loc_lidar[2], loc_lidar[3] + dims[k][2] \div 2,
                      dims[k][1], dims[k][3], dims[k][2], -(1 + rots[k])>>]
    IN  raw @@ [index |-> index, gt_boxes_lidar |-> gt_boxes_lidar]

\* the keys the length assertion of process_single_scene walks over
CheckedKeys(annos) == DOMAIN annos \ {"index", "gt_boxes_lidar"}

\* the assertion holds: every checked key has the length of the others
KeysMatch(annos) ==
    \A a, b \in CheckedKeys(annos) : Len(annos[a]) = Len(annos[b])

\* num_objects of process_single_scene
NumObjects(obj_list) ==
    Cardinality({i \in 1..Len(obj_list) : obj_list[i].cls_type # IgnoreClass})

\* the FOV-filtered points of the frame (margin 0)
PtsFov(points, image_shape) ==
    LET pts_rect == [i \in 1..Len(points) |->
                        lidar_to_rect(<<points[i][1], points[i][2], points[i][3]>>)]
    IN  MaskSelect(points, get_fov_flag(pts_rect, image_shape, 0))

\* how many of the points pts are in the box
CountInBox(pts, box) == CountTrue([i \in 1..Len(pts) |-> in_hull(pts[i], box)])

\* NumPointsInGt never shorter than one entry (-np.ones(max(num_gt, 1)))
NumPointsInGtPadded(obj_list, annos, points, image_shape) ==
    LET num_objects == NumObjects(obj_list)
        num_gt == IF Len(annos.name) = 0 THEN 1 ELSE Len(annos.name)
        pts_fov == PtsFov(points, image_shape)
    IN  [k \in 1..num_gt |->
            IF k <= num_objects
            THEN CountInBox(pts_fov, annos.gt_boxes_lidar[k])
            ELSE -1]

\* num_points_in_gt as the counting loop leaves it
NumPointsInGt(obj_list, annos, points, image_shape) ==
    LET num_objects == NumObjects(obj_list)
        num_gt == Len(annos.name)
        pts_fov == PtsFov(points, image_shape)
    IN  [k \in 1..num_gt |->
            IF k <= num_objects
            THEN CountInBox(pts_fov, annos.gt_boxes_lidar[k])
            ELSE -1]

\* the info record before the labels are read
BaseInfo(sample_idx) ==
    [point_cloud |-> [num_features |-> 4, lidar_idx |-> sample_idx],
     image |-> [image_idx |-> sample_idx, image_shape |-> ImageShape],
     calib |-> Calib]

---------------------------------------------------------------------------
(* One frame, step by step *)

SceneOptions ==
    {[has_label |-> TRUE, count_inside_pts |-> TRUE],
     [has_label |-> TRUE, count_inside_pts |-> FALSE],
     [has_label |-> FALSE, count_inside_pts |-> TRUE]}

\* the component is not part of the run
IdleScene ==
    /\ sc_pc = "off"
    /\ sc_objs = <<>>
    /\ sc_opts = [has_label |-> TRUE, count_inside_pts |-> TRUE]
    /\ sc_info = BaseInfo("1")

InitScene ==
    /\ sc_pc = "start"
    /\ sc_objs \in SeqsUpTo(LabelObjects, MaxObjs)
    /\ sc_opts \in SceneOptions
    /\ sc_info = BaseInfo("1")

\* lines 248-289: the labels are read and the annotation set is built
SceneBuildAnnos ==
    /\ sc_pc = "start"
    /\ sc_opts.has_label
    /\ sc_info' = sc_info @@ [annos |-> BuildAnnotations(sc_objs)]
    /\ sc_pc' = "check"
    /\ UNCHANGED <<sc_objs, sc_opts>>
    /\ UNCHANGED notScene

\* has_label is false: the record is returned without annotations
SceneNoLabel ==
    /\ sc_pc = "start"
    /\ ~sc_opts.has_label
    /\ sc_pc' = "done"
    /\ UNCHANGED <<sc_objs, sc_opts, sc_info>>
    /\ UNCHANGED notScene

\* lines 291-300: the assertion over the keys of the annotation set
SceneCheckKeys ==
    /\ sc_pc = "check"
    /\ sc_pc' = IF ~KeysMatch(sc_info.annos) THEN "AssertionError"
                ELSE IF sc_opts.count_inside_pts THEN "count" ELSE "done"
    /\ UNCHANGED <<sc_objs, sc_opts, sc_info>>
    /\ UNCHANGED notScene

\* lines 302-315: the points of each box are counted
SceneCountPoints ==
    /\ sc_pc = "count"
    /\ sc_info' = [sc_info EXCEPT !.annos = @ @@
            [num_points_in_gt |->
                NumPointsInGt(sc_objs, sc_info.annos, PointCloud,
                              sc_info.image.image_shape)]]
    /\ sc_pc' = "done"
    /\ UNCHANGED <<sc_objs, sc_opts>>
    /\ UNCHANGED notScene

NextScene ==
    \/ SceneBuildAnnos
    \/ SceneNoLabel
    \/ SceneCheckKeys
    \/ SceneCountPoints

---------------------------------------------------------------------------
(* get_infos: the worker pool, and create_coda_infos saving its result *)

FrameIds == {"1", "2", "3"}

FileKinds == {"image", "calib", "label", "velodyne"}

\* the files a frame has on disk: all of them, or all but one
FileSets == {FileKinds} \cup {FileKinds \ {k} : k \in FileKinds}

\* the label file of each frame
LabelOf(sample_idx) ==
    CASE sample_idx = "1" -> <<LabelObject("Car", LocA, -1)>>
      [] sample_idx = "2" -> <<LabelObject(IgnoreClass, LocB, 0),
                               LabelObject("Pedestrian", LocA, 0)>>
      [] OTHER -> <<>>

\* every list of distinct frame ids
IdLists ==
    {s \in SeqsUpTo(FrameIds, Cardinality(FrameIds)) :
        \A i, j \in 1..Len(s) : i # j => s[i] # s[j]}

\* what a future holds
Queued == [state |-> "queued"]
Running == [state |-> "running"]
Raised(what) == [state |-> "done", ok |-> FALSE, exc |-> what]
Returned(info) == [state |-> "done", ok |-> TRUE, info |-> info]

\* the info file of the split
NoFile == [written |-> FALSE]
Pickled(infos) == [written |-> TRUE, infos |-> infos]

\* get_infos.process_single_scene on one frame id: the record, or the
\* assertion that failed
process_single_scene(sample_idx, files, has_label, count_inside_pts) ==
    IF "image" \notin files THEN Raised("image")
    ELSE IF "calib" \notin files THEN Raised("calib")
    ELSE IF ~has_label THEN Returned(BaseInfo(sample_idx))
    ELSE IF "label" \notin files THEN Raised("label")
    ELSE LET obj_list == LabelOf(sample_idx)
             annotations == BuildAnnotations(obj_list)
             info == BaseInfo(sample_idx)
         IN  IF ~KeysMatch(annotations) THEN Raised("keys")
             ELSE IF ~count_inside_pts
                  THEN Returned(info @@ [annos |-> annotations])
             ELSE IF "velodyne" \notin files THEN Raised("velodyne")
             ELSE Returned(info @@ [annos |-> annotations @@
                     [num_points_in_gt |->
                         NumPointsInGt(obj_list, annotations, PointCloud,
                                       info.image.image_shape)]])

IsDone(fut) == fut.state = "done"

\* CollectResults gathering the results as they arrive (as_completed)
CollectByArrival(futures, order) ==
    IF \E i \in 1..Len(futures) : ~futures[i].ok
    THEN Raised(futures[CHOOSE i \in 1..Len(futures) :
                    /\ ~futures[i].ok
                    /\ \A j \in 1..(i - 1) : futures[j].ok].exc)
    ELSE Returned([k \in 1..Len(order) |-> futures[order[k]].info])

\* CollectResults dropping the frames that failed
CollectSkipFailed(futures, order) ==
    Returned(Take([i \in 1..Len(futures) |-> futures[i].info],
                  TruePositions([i \in 1..Len(futures) |-> futures[i].ok])))

\* list(infos) over the iterator executor.map returned: the results of the
\* futures in the order they were submitted, or the first exception
CollectResults(futures, order) ==
    IF \E i \in 1..Len(futures) : ~futures[i].ok
    THEN Raised(futures[CHOOSE i \in 1..Len(futures) :
                    /\ ~futures[i].ok
                    /\ \A j \in 1..(i - 1) : futures[j].ok].exc)
    ELSE Returned([i \in 1..Len(futures) |-> futures[i].info])

IdleInfos ==
    /\ gi_pc = "off"
    /\ gi_ids = <<>>
    /\ gi_files = [f \in FrameIds |-> FileKinds]
    /\ gi_workers = 1
    /\ gi_futures = <<>>
    /\ gi_order = <<>>
    /\ gi_ret = <<>>
    /\ gi_saved = NoFile

\* create_coda_infos has set the split; its info file is not written yet
InitInfos ==
    /\ gi_pc = "call"
    /\ gi_ids \in IdLists
    /\ gi_files \in [FrameIds -> FileSets]
    /\ gi_workers \in 1..MaxWorkers
    /\ gi_futures = <<>>
    /\ gi_order = <<>>
    /\ gi_ret = <<>>
    /\ gi_saved = NoFile

\* executor.map submits one task per id, in the order of the list
GetInfosMap ==
    /\ gi_pc = "call"
    /\ gi_futures' = [i \in 1..Len(gi_ids) |-> Queued]
    /\ gi_pc' = "pool"
    /\ UNCHANGED <<gi_ids, gi_files, gi_workers, gi_order, gi_ret, gi_saved>>
    /\ UNCHANGED notInfos

\* a free worker takes the oldest task of the queue
WorkerStart ==
    /\ gi_pc = "pool"
    /\ Cardinality({i \in 1..Len(gi_futures) : gi_futures[i] = Running})
            < gi_workers
    /\ \E i \in 1..Len(gi_futures) :
        /\ gi_futures[i] = Queued
        /\ \A j \in 1..(i - 1) : gi_futures[j] # Queued
        /\ gi_futures' = [gi_futures EXCEPT ![i] = Running]
    /\ UNCHANGED <<gi_pc, gi_ids, gi_files, gi_workers, gi_order, gi_ret,
                   gi_saved>>
    /\ UNCHANGED notInfos

\* a worker finishes its frame: the future holds the record or the exception
WorkerFinish ==
    /\ gi_pc = "pool"
    /\ \E i \in 1..Len(gi_futures) :
        /\ gi_futures[i] = Running
        /\ gi_futures' = [gi_futures EXCEPT ![i] =
                process_single_scene(gi_ids[i], gi_files[gi_ids[i]], TRUE, TRUE)]
        /\ gi_order' = Append(gi_order, i)
    /\ UNCHANGED <<gi_pc, gi_ids, gi_files, gi_workers, gi_ret, gi_saved>>
    /\ UNCHANGED notInfos

\* the with block has waited for every task; list(infos) returns or raises
GetInfosReturn ==
    /\ gi_pc = "pool"
    /\ \A i \in 1..Len(gi_futures) : IsDone(gi_futures[i])
    /\ LET res == CollectResults(gi_futures, gi_order)
       IN  IF res.ok
           THEN gi_ret' = res.info /\ gi_pc' = "returned"
           ELSE gi_ret' = gi_ret /\ gi_pc' = "raised"
    /\ UNCHANGED <<gi_ids, gi_files, gi_workers, gi_futures, gi_order, gi_saved>>
    /\ UNCHANGED notInfos

\* create_coda_infos pickles the returned list into the split's info file
CreateInfosDump ==
    /\ gi_pc = "returned"
    /\ gi_saved' = Pickled(gi_ret)
    /\ gi_pc' = "saved"
    /\ UNCHANGED <<gi_ids, gi_files, gi_workers, gi_futures, gi_order, gi_ret>>
    /\ UNCHANGED notInfos

NextInfos ==
    \/ GetInfosMap
    \/ WorkerStart
    \/ WorkerFinish
    \/ GetInfosReturn
    \/ CreateInfosDump

---------------------------------------------------------------------------
(* create_groundtruth_database *)

\* used_classes: None, or a list of class names
NoClassFilter == [all |-> TRUE, classes |-> {}]
ClassFilter(classes) == [all |-> FALSE, classes |-> classes]

ClassFilters ==
    {NoClassFilter, ClassFilter({"Car"}), ClassFilter({"Car", "Pedestrian"})}

\* an empty directory, and an empty class-to-entries dict
EmptyDir == [n \in {} |-> <<>>]

\* the info record get_infos builds for a frame with these labels
InfoWithLabels(sample_idx, obj_list) ==
    LET annotations == BuildAnnotations(obj_list)
    IN  BaseInfo(sample_idx) @@ [annos |-> annotations @@
            [num_points_in_gt |->
                NumPointsInGt(obj_list, annotations, PointCloud, ImageShape)]]

\* roiaware_pool3d_utils.points_in_boxes_cpu on one point and one box: the
\* point is in the oriented box
point_in_box_cpu(p, box) ==
    /\ 2 * Abs(p[3] - box[3]) <= box[6]
    /\ 2 * Abs(p[1] - box[1]) <= ExtentX(box)
    /\ 2 * Abs(p[2] - box[2]) <= ExtentY(box)

\* point_indices: one mask over the points per box
points_in_boxes_cpu(points, boxes) ==
    [i \in 1..Len(boxes) |->
        [j \in 1..Len(points) |-> point_in_box_cpu(points[j], boxes[i])]]

\* CropPoints leaving the points where they are in the lidar frame
CropNoRecenter(points, mask, box) == MaskSelect(points, mask)

\* gt_points = points[point_indices[i] > 0]; gt_points[:, :3] -= box[:3]
CropPoints(points, mask, box) ==
    LET gt_points == MaskSelect(points, mask)
    IN  [j \in 1..Len(gt_points) |->
            <<gt_points[j][1] - box[1], gt_points[j][2] - box[2],
              gt_points[j][3] - box[3], gt_points[j][4]>>]

\* WriteFile opening the file to append
WriteFileAppend(files, filename, data) ==
    [n \in DOMAIN files \cup {filename} |->
        IF n = filename
        THEN (IF n \in DOMAIN files THEN files[n] ELSE <<>>) \o data
        ELSE files[n]]

\* open(filepath, 'w') and tofile: the file holds the data and nothing else
WriteFile(files, filename, data) ==
    [n \in DOMAIN files \cup {filename} |->
        IF n = filename THEN data ELSE files[n]]

\* all_db_infos[name].append(db_info), the list created when it is new
AppendEntry(all_db_infos, name, db_info) ==
    [n \in DOMAIN all_db_infos \cup {name} |->
        IF n = name
        THEN (IF n \in DOMAIN all_db_infos THEN all_db_infos[n] ELSE <<>>)
                \o <<db_info>>
        ELSE all_db_infos[n]]

\* the name of the file of object i of a frame: '%s_%s_%d.bin'
DbFileName(sample_idx, name, i) == <<sample_idx, name, i>>

IdleDb ==
    /\ db_pc = "off"
    /\ db_infos = <<>>
    /\ db_used = NoClassFilter
    /\ db_k = 1
    /\ db_i = 1
    /\ db_files = EmptyDir
    /\ db_all = EmptyDir
    /\ db_index = NoFile
    /\ db_run = 1
    /\ db_first = [files |-> EmptyDir, index |-> NoFile]

\* the info file holds two frames as get_infos built them: frame "1" with
\* any label list, frame "2" with an ignored object first
InitDb ==
    /\ db_pc = "call"
    /\ \E objs \in SeqsUpTo(LabelObjects, MaxDbObjs) :
            db_infos = <<InfoWithLabels("1", objs),
                         InfoWithLabels("2", LabelOf("2"))>>
    /\ db_used \in ClassFilters
    /\ db_k = 1
    /\ db_i = 1
    /\ db_files = EmptyDir
    /\ db_all = EmptyDir
    /\ db_index = NoFile
    /\ db_run = 1
    /\ db_first = [files |-> EmptyDir, index |-> NoFile]

\* lines 327-334: the directory is made, the index starts empty, the infos
\* are loaded
DbStart ==
    /\ db_pc = "call"
    /\ db_all' = EmptyDir
    /\ db_k' = 1
    /\ db_i' = 1
    /\ db_pc' = "loop"
    /\ UNCHANGED <<db_infos, db_used, db_files, db_index, db_run, db_first>>
    /\ UNCHANGED notDb

\* lines 352-369: object i of frame k is cropped, saved and, if its name
\* passes the filter, indexed
DbCropObject ==
    /\ db_pc = "loop"
    /\ db_k <= Len(db_infos)
    /\ LET info == db_infos[db_k]
           sample_idx == info.point_cloud.lidar_idx
           points == PointCloud
           annos == info.annos
           names == annos.name
           difficulty == annos.difficulty
           bbox == annos.bbox
           gt_boxes == annos.gt_boxes_lidar
           num_obj == Len(gt_boxes)
           point_indices == points_in_boxes_cpu(points, gt_boxes)
           i == db_i
       IN  /\ i <= num_obj
           /\ LET filename == DbFileName(sample_idx, names[i], i)
                  gt_points == CropPoints(points, point_indices[i], gt_boxes[i])
                  db_info == [name |-> names[i], path |-> filename,
                              image_idx |-> sample_idx, gt_idx |-> i,
                              box3d_lidar |-> gt_boxes[i],
                              num_points_in_gt |-> Len(gt_points),
                              difficulty |-> difficulty[i], bbox |-> bbox[i],
                              score |-> annos.score[i]]
              IN  /\ db_files' = WriteFile(db_files, filename, gt_points)
                  /\ db_all' = IF db_used.all \/ names[i] \in db_used.classes
                                THEN AppendEntry(db_all, names[i], db_info)
                                ELSE db_all
    /\ db_i' = db_i + 1
    /\ UNCHANGED <<db_pc, db_infos, db_used, db_k, db_index, db_run, db_first>>
    /\ UNCHANGED notDb

\* the objects of frame k are done: on to the next frame
DbNextFrame ==
    /\ db_pc = "loop"
    /\ db_k <= Len(db_infos)
    /\ db_i > Len(db_infos[db_k].annos.gt_boxes_lidar)
    /\ db_k' = db_k + 1
    /\ db_i' = 1
    /\ UNCHANGED <<db_pc, db_infos, db_used, db_files, db_all, db_index,
                   db_run, db_first>>
    /\ UNCHANGED notDb

\* lines 373-374: the index is pickled into the dbinfos file
DbDump ==
    /\ db_pc = "loop"
    /\ db_k > Len(db_infos)
    /\ db_index' = Pickled(db_all)
    /\ db_pc' = "done"
    /\ UNCHANGED <<db_infos, db_used, db_k, db_i, db_files, db_all, db_run,
                   db_first>>
    /\ UNCHANGED notDb

\* create_groundtruth_database is called again on the same info file; what
\* the first run left on disk is remembered
DbRerun ==
    /\ db_pc = "done"
    /\ db_run < MaxRuns
    /\ db_first' = IF db_run = 1
                    THEN [files |-> db_files, index |-> db_index]
                    ELSE db_first
    /\ db_run' = db_run + 1
    /\ db_pc' = "call"
    /\ UNCHANGED <<db_infos, db_used, db_k, db_i, db_files, db_all, db_index>>
    /\ UNCHANGED notDb

NextDb ==
    \/ DbStart
    \/ DbCropObject
    \/ DbNextFrame
    \/ DbDump
    \/ DbRerun

---------------------------------------------------------------------------
(* generate_prediction_dicts *)

\* class_names, which the 1-based labels of the predictions index
ClassNames == <<"Car", "Pedestrian">>

\* one predicted box with its score and label
PredDets ==
    {[box |-> <<3, 2, 0, 4, 1, 2, 0>>, score |-> 9, label |-> 1],
     [box |-> <<-3, 2, 0, 3, 1, 2, 1>>, score |-> 5, label |-> 2],
     [box |-> <<5, -2, 1, 5, 3, 4, -1>>, score |-> 7, label |-> 2]}

\* the batches: the frame ids of batch_dict
BatchIds == {<<>>, <<"1">>, <<"1", "2">>}

\* dataset_cfg: TEST.BOX_FILTER.FOV_FILTER, SHIFT_COOR, and whether an
\* output_path is given
PredConfigs ==
    [fov_filter : BOOLEAN, output : BOOLEAN,
     shift : {[on |-> FALSE, v |-> <<0, 0, 0>>], [on |-> TRUE, v |-> <<1, 0, 0>>]}]

\* pred_dicts[index] as its three parallel tensors
BoxDict(dets) ==
    [pred_boxes |-> [j \in 1..Len(dets) |-> dets[j].box],
     pred_scores |-> [j \in 1..Len(dets) |-> dets[j].score],
     pred_labels |-> [j \in 1..Len(dets) |-> dets[j].label]]

\* np.zeros(num_samples)
Zeros(num_samples) == [j \in 1..num_samples |-> 0]

\* get_template_prediction
get_template_prediction(num_samples) ==
    [name |-> Zeros(num_samples), truncated |-> Zeros(num_samples),
     occluded |-> Zeros(num_samples), alpha |-> Zeros(num_samples),
     bbox |-> [j \in 1..num_samples |-> <<0, 0, 0, 0>>],
     dimensions |-> [j \in 1..num_samples |-> <<0, 0, 0>>],
     location |-> [j \in 1..num_samples |-> <<0, 0, 0>>],
     rotation_y |-> Zeros(num_samples), score |-> Zeros(num_samples),
     boxes_lidar |-> [j \in 1..num_samples |-> <<0, 0, 0, 0, 0, 0, 0>>]]

\* box_utils.boxes3d_lidar_to_kitti_camera on one box: the centre moves
\* down by half the height and into the camera frame, the sizes become
\* length-height-width, the yaw -r - pi/2
boxes3d_lidar_to_kitti_camera(box) ==
    LET xyz_cam == lidar_to_rect(<<box[1], box[2], box[3] - box[6] \div 2>>)
    IN  <<xyz_cam[1], xyz_cam[2], xyz_cam[3], box[4], box[6], box[5],
          -box[7] - 1>>

Clip(v, lo, hi) == IF v < lo THEN lo ELSE IF v > hi THEN hi ELSE v

\* box_utils.boxes3d_kitti_camera_to_imageboxes on one box, coarsely: the
\* image box one pixel around the projected centre (the code takes it
\* around the projected corners), clipped to the image
boxes3d_kitti_camera_to_imageboxes(box_camera, image_shape) ==
    LET pts_img == rect_to_img(<<box_camera[1], box_camera[2], box_camera[3]>>)
        u == IF pts_img.den > 0 THEN pts_img.un \div pts_img.den ELSE 0
        v == IF pts_img.den > 0 THEN pts_img.vn \div pts_img.den ELSE 0
    IN  <<Clip(u - 1, 0, image_shape[2] - 1), Clip(v - 1, 0, image_shape[1] - 1),
          Clip(u + 1, 0, image_shape[2] - 1), Clip(v + 1, 0, image_shape[1] - 1)>>

\* np.arctan2(y, x), to the nearest quarter turn
arctan2(y, x) ==
    IF Abs(y) <= Abs(x) THEN (IF x >= 0 THEN 0 ELSE 2)
    ELSE (IF y > 0 THEN 1 ELSE -1)

\* generate_single_sample_dict
generate_single_sample_dict(box_dict, cfg, image_shape) ==
    LET num_samples == Len(box_dict.pred_scores)
        pred_dict == get_template_prediction(num_samples)
        shifted == IF cfg.shift.on
                   THEN [j \in 1..num_samples |->
                            LET b == box_dict.pred_boxes[j]
                            IN  <<b[1] - cfg.shift.v[1], b[2] - cfg.shift.v[2],
                                  b[3] - cfg.shift.v[3], b[4], b[5], b[6], b[7]>>]
                   ELSE box_dict.pred_boxes
        pts_rect == [j \in 1..num_samples |->
                        lidar_to_rect(<<shifted[j][1], shifted[j][2], shifted[j][3]>>)]
        fov_flag == get_fov_flag(pts_rect, image_shape, FovMargin)
        pred_boxes == IF cfg.fov_filter THEN MaskSelect(shifted, fov_flag)
                      ELSE shifted
        pred_labels == IF cfg.fov_filter
                       THEN MaskSelect(box_dict.pred_labels, fov_flag)
                       ELSE box_dict.pred_labels
        pred_scores == IF cfg.fov_filter
                       THEN MaskSelect(box_dict.pred_scores, fov_flag)
                       ELSE box_dict.pred_scores
        n == Len(pred_boxes)
        pred_boxes_camera == [j \in 1..n |->
                                boxes3d_lidar_to_kitti_camera(pred_boxes[j])]
        pred_boxes_img == [j \in 1..n |->
            boxes3d_kitti_camera_to_imageboxes(pred_boxes_camera[j], image_shape)]
    IN  IF num_samples = 0 THEN pred_dict
        ELSE [pred_dict EXCEPT
                !.name = [j \in 1..n |-> ClassNames[pred_labels[j]]],
                !.alpha = [j \in 1..n |->
                    -arctan2(-pred_boxes[j][2], pred_boxes[j][1])
                        + pred_boxes_camera[j][7]],
                !.bbox = pred_boxes_img,
                !.dimensions = [j \in 1..n |->
                    <<pred_boxes_camera[j][4], pred_boxes_camera[j][5],
                      pred_boxes_camera[j][6]>>],
                !.location = [j \in 1..n |->
                    <<pred_boxes_camera[j][1], pred_boxes_camera[j][2],
                      pred_boxes_camera[j][3]>>],
                !.rotation_y = [j \in 1..n |-> pred_boxes_camera[j][7]],
                !.score = pred_scores,
                !.boxes_lidar = pred_boxes]

\* '%.4f' of a whole number
Fmt4(v) == ToString(v) \o ".0000"

\* FormatLine printing the sizes as they are stored, length-height-width
FormatLineLhw(name, alpha, bbox, dims, loc, rotation_y, score) ==
    <<name, "-1", "-1", Fmt4(alpha),
      Fmt4(bbox[1]), Fmt4(bbox[2]), Fmt4(bbox[3]), Fmt4(bbox[4]),
      Fmt4(dims[1]), Fmt4(dims[2]), Fmt4(dims[3]),
      Fmt4(loc[1]), Fmt4(loc[2]), Fmt4(loc[3]),
      Fmt4(rotation_y), Fmt4(score)>>

\* one line of the submission file, as the fields the spaces of the format
\* string separate
FormatLine(name, alpha, bbox, dims, loc, rotation_y, score) ==
    <<name, "-1", "-1", Fmt4(alpha),
      Fmt4(bbox[1]), Fmt4(bbox[2]), Fmt4(bbox[3]), Fmt4(bbox[4]),
      Fmt4(dims[2]), Fmt4(dims[3]), Fmt4(dims[1]),
      Fmt4(loc[1]), Fmt4(loc[2]), Fmt4(loc[3]),
      Fmt4(rotation_y), Fmt4(score)>>

\* the lines written for one batch element: one per row of bbox
DetLines(single_pred_dict) ==
    [idx \in 1..Len(single_pred_dict.bbox) |->
        FormatLine(single_pred_dict.name[idx], single_pred_dict.alpha[idx],
                   single_pred_dict.bbox[idx], single_pred_dict.dimensions[idx],
                   single_pred_dict.location[idx],
                   single_pred_dict.rotation_y[idx], single_pred_dict.score[idx])]

IdlePred ==
    /\ pd_pc = "off"
    /\ pd_ids = <<>>
    /\ pd_preds = <<>>
    /\ pd_cfg = [fov_filter |-> FALSE, output |-> FALSE,
                 shift |-> [on |-> FALSE, v |-> <<0, 0, 0>>]]
    /\ pd_index = 1
    /\ pd_annos = <<>>
    /\ pd_out = EmptyDir

InitPred ==
    /\ pd_pc = "loop"
    /\ pd_ids \in BatchIds
    /\ pd_preds \in [1..Len(pd_ids) -> SeqsUpTo(PredDets, MaxPreds)]
    /\ pd_cfg \in PredConfigs
    /\ pd_index = 1
    /\ pd_annos = <<>>
    /\ pd_out = EmptyDir

\* lines 441-461: one batch element is turned into an annotation set and,
\* if an output path is given, written to the file of its frame id
PredElement ==
    /\ pd_pc = "loop"
    /\ pd_index <= Len(pd_preds)
    /\ LET frame_id == pd_ids[pd_index]
           single_pred_dict ==
               generate_single_sample_dict(BoxDict(pd_preds[pd_index]), pd_cfg,
                                           ImageShape)
                   @@ [frame_id |-> frame_id]
       IN  /\ pd_annos' = Append(pd_annos, single_pred_dict)
           /\ pd_out' = IF pd_cfg.output
                         THEN WriteFile(pd_out, frame_id, DetLines(single_pred_dict))
                         ELSE pd_out
    /\ pd_index' = pd_index + 1
    /\ UNCHANGED <<pd_pc, pd_ids, pd_preds, pd_cfg>>
    /\ UNCHANGED notPred

\* line 463: the annotation sets are returned
PredReturn ==
    /\ pd_pc = "loop"
    /\ pd_index > Len(pd_preds)
    /\ pd_pc' = "done"
    /\ UNCHANGED <<pd_ids, pd_preds, pd_cfg, pd_index, pd_annos, pd_out>>
    /\ UNCHANGED notPred

NextPred ==
    \/ PredElement
    \/ PredReturn

---------------------------------------------------------------------------
(* evaluation *)

\* the records a loaded corpus is made of: without annotations, with the
\* annotations of a frame without objects, with those of frame "2"
EvalRecords ==
    {BaseInfo("1"), InfoWithLabels("3", <<>>), InfoWithLabels("2", LabelOf("2"))}

HasAnnos(info) == "annos" \in DOMAIN info

\* CODataset.evaluation on the corpus: what it returns or raises
evaluation(coda_infos) ==
    IF Len(coda_infos) = 0 THEN [kind |-> "IndexError"]
    ELSE IF ~HasAnnos(coda_infos[1]) THEN [kind |-> "empty"]
    ELSE IF \E i \in 1..Len(coda_infos) : ~HasAnnos(coda_infos[i])
         THEN [kind |-> "KeyError"]
    ELSE [kind |-> "scored",
          eval_gt_annos |-> [i \in 1..Len(coda_infos) |-> coda_infos[i].annos]]

IdleEval ==
    /\ ev_pc = "off"
    /\ ev_infos = <<>>
    /\ ev_result = [kind |-> "none"]

InitEval ==
    /\ ev_pc = "call"
    /\ ev_infos \in SeqsUpTo(EvalRecords, MaxEvalInfos)
    /\ ev_result = [kind |-> "none"]

\* lines 465-475
Evaluate ==
    /\ ev_pc = "call"
    /\ ev_result' = evaluation(ev_infos)
    /\ ev_pc' = "done"
    /\ UNCHANGED ev_infos
    /\ UNCHANGED notEval

NextEval == Evaluate

---------------------------------------------------------------------------
(* balanced_infos_resampling *)

\* the most records of a corpus whose draws are enumerated in full
MaxCorpus == 3

\* the most records of one class in the large corpora
MaxBig == 251

\* the 1e-3 of line 85 is 1/EpsDen
EpsDen == 1000

\* self.class_names: None, or the class vocabulary
NoClassNames == [none |-> TRUE, names |-> <<>>]
Vocabulary(names) == [none |-> FALSE, names |-> names]

Vocabularies ==
    {NoClassNames, Vocabulary(<<"Car">>), Vocabulary(<<"Car", "Pedestrian">>),
     Vocabulary(<<"Car", "Pedestrian", "Cyclist">>)}

\* an info record, with the fields the resampler reads or passes on
SampleInfo(idx, names) ==
    [point_cloud |-> [num_features |-> 4, lidar_idx |-> idx],
     annos |-> [name |-> names]]

\* the names of the objects of a frame
NameLists ==
    {<<"Car">>, <<"Pedestrian">>, <<"Car", "Pedestrian", "Car">>,
     <<IgnoreClass>>}

\* the corpora of at most MaxCorpus frames
SmallCorpora ==
    {[i \in 1..Len(nl) |-> SampleInfo(i, nl[i])] :
        nl \in SeqsUpTo(NameLists, MaxCorpus)}

\* a corpus of a frames with a Car and b frames with a Pedestrian
BigCorpus(a, b) ==
    [i \in 1..(a + b) |->
        SampleInfo(i, IF i <= a THEN <<"Car">> ELSE <<"Pedestrian">>)]

BigCorpora == {BigCorpus(a, b) : a, b \in (MaxBig - 1)..MaxBig}

\* ClsInfos filing every record under every class
ClsInfosAll(infos, names) == [c \in 1..Len(names) |-> infos]

\* lines 72-77: cls_infos, its values in the order of class_names; a record
\* is filed under each class of the vocabulary that one of its names is
ClsInfos(infos, names) ==
    [c \in 1..Len(names) |->
        SelectSeq(infos, LAMBDA info : names[c] \in Range(info.annos.name))]

RECURSIVE SumLen(_)
\* sum([len(v) for v in seqs])
SumLen(seqs) ==
    IF seqs = <<>> THEN 0 ELSE Len(Head(seqs)) + SumLen(Tail(seqs))

\* Ratio growing with the share of the class: (share + 1e-3) / frac
RatioProportional(n, D, K) == <<K * (EpsDen * n + D), EpsDen * D>>

\* line 85 for a class of n records among D memberships and K classes:
\* (1/K) / (n/D + 1e-3), as <<numerator, denominator>>
Ratio(n, D, K) == <<EpsDen * D, K * (EpsDen * n + D)>>

\* int(len(cur_cls_infos) * ratio): the product cut to a whole number
DrawSize(n, ratio) == (n * ratio[1]) \div ratio[2]

\* the random sources of the long draws: position start, then every step-th
Streams == {[start |-> s, step |-> t] : s \in 0..1, t \in 0..2}

\* what np.random.choice can pick out of n records, size times with
\* replacement: every list of positions for a short draw, the lists of the
\* random sources above for a long one
Draws(n, size) ==
    IF size = 0 THEN {<<>>}
    ELSE IF size <= MaxCorpus THEN [1..size -> 1..n]
    ELSE {[k \in 1..size |-> ((st.start + (k - 1) * st.step) % n) + 1] :
            st \in Streams}

IdleResample ==
    /\ rs_pc = "off"
    /\ rs_infos = <<>>
    /\ rs_names = NoClassNames
    /\ rs_cls_infos = <<>>
    /\ rs_ratios = <<>>
    /\ rs_c = 1
    /\ rs_draws = <<>>
    /\ rs_sampled = <<>>
    /\ rs_ret = <<>>

\* the corpus is loaded and balanced_infos_resampling is called on it
InitResample ==
    /\ rs_pc = "call"
    /\ rs_infos \in SmallCorpora \cup BigCorpora
    /\ rs_names \in Vocabularies
    /\ rs_cls_infos = <<>>
    /\ rs_ratios = <<>>
    /\ rs_c = 1
    /\ rs_draws = <<>>
    /\ rs_sampled = <<>>
    /\ rs_ret = <<>>

\* lines 69-70: without a vocabulary the corpus is returned as it is
ResampleNoClasses ==
    /\ rs_pc = "call"
    /\ rs_names.none
    /\ rs_ret' = rs_infos
    /\ rs_pc' = "returned"
    /\ UNCHANGED <<rs_infos, rs_names, rs_cls_infos, rs_ratios, rs_c,
                   rs_draws, rs_sampled>>
    /\ UNCHANGED notResample

\* lines 72-77: the record set of each class
ResampleGroup ==
    /\ rs_pc = "call"
    /\ ~rs_names.none
    /\ rs_cls_infos' = ClsInfos(rs_infos, rs_names.names)
    /\ rs_pc' = "dist"
    /\ UNCHANGED <<rs_infos, rs_names, rs_ratios, rs_c, rs_draws, rs_sampled,
                   rs_ret>>
    /\ UNCHANGED notResample

\* lines 79-85: the shares and the ratios; the share of a class divides by
\* the number of memberships
ResampleRatios ==
    /\ rs_pc = "dist"
    /\ LET duplicated_samples == SumLen(rs_cls_infos)
           K == Len(rs_names.names)
       IN  IF duplicated_samples = 0
           THEN /\ rs_pc' = "ZeroDivisionError"
                /\ UNCHANGED rs_ratios
           ELSE /\ rs_ratios' = [c \in 1..K |->
                        Ratio(Len(rs_cls_infos[c]), duplicated_samples, K)]
                /\ rs_pc' = "draw"
    /\ rs_c' = 1
    /\ rs_sampled' = <<>>
    /\ UNCHANGED <<rs_infos, rs_names, rs_cls_infos, rs_draws, rs_ret>>
    /\ UNCHANGED notResample

\* lines 87-90: the draw of one class is added to sampled_infos
ResampleDraw ==
    /\ rs_pc = "draw"
    /\ rs_c <= Len(rs_cls_infos)
    /\ LET cur_cls_infos == rs_cls_infos[rs_c]
           ratio == rs_ratios[rs_c]
           size == DrawSize(Len(cur_cls_infos), ratio)
       IN  \E d \in Draws(Len(cur_cls_infos), size) :
                /\ rs_draws' = Append(rs_draws, Take(cur_cls_infos, d))
                /\ rs_sampled' = rs_sampled \o Take(cur_cls_infos, d)
    /\ rs_c' = rs_c + 1
    /\ UNCHANGED <<rs_pc, rs_infos, rs_names, rs_cls_infos, rs_ratios, rs_ret>>
    /\ UNCHANGED notResample

\* lines 93-101: the new shares divide by the size of the resampled corpus,
\* then it is returned
ResampleReturn ==
    /\ rs_pc = "draw"
    /\ rs_c > Len(rs_cls_infos)
    /\ IF Len(rs_sampled) = 0
       THEN /\ rs_pc' = "ZeroDivisionError"
            /\ UNCHANGED rs_ret
       ELSE /\ rs_ret' = rs_sampled
            /\ rs_pc' = "returned"
    /\ UNCHANGED <<rs_infos, rs_names, rs_cls_infos, rs_ratios, rs_c,
                   rs_draws, rs_sampled>>
    /\ UNCHANGED notResample

NextResample ==
    \/ ResampleNoClasses
    \/ ResampleGroup
    \/ ResampleRatios
    \/ ResampleDraw
    \/ ResampleReturn

---------------------------------------------------------------------------
(* get_fov_flag called on its own *)

\* the most points of one call
MaxFovPts == 2

\* points of the camera frame: in front of the camera, in its plane, behind
FovPoints ==
    {<<x, y, z>> : x \in {-7, -2, 2, 7}, y \in {-2, 0, 2}, z \in {-1, 0, 1}}

FovShapes == {ImageShape, <<2, 3>>}

\* the margins of the callers (0 in get_infos and __getitem__, 5 in
\* generate_prediction_dicts) and one more
FovMargins == {0, 1, FovMargin}

IdleFov ==
    /\ fv_pc = "off"
    /\ fv_pts = <<>>
    /\ fv_shape = ImageShape
    /\ fv_margin = 0
    /\ fv_mask = <<>>

InitFov ==
    /\ fv_pc = "call"
    /\ fv_pts \in SeqsUpTo(FovPoints, MaxFovPts)
    /\ fv_shape \in FovShapes
    /\ fv_margin \in FovMargins
    /\ fv_mask = <<>>

\* lines 217-223
FovFlag ==
    /\ fv_pc = "call"
    /\ fv_mask' = get_fov_flag(fv_pts, fv_shape, fv_margin)
    /\ fv_pc' = "done"
    /\ UNCHANGED <<fv_pts, fv_shape, fv_margin>>
    /\ UNCHANGED notFov

NextFov == FovFlag

---------------------------------------------------------------------------
(* The claims *)

\* the annotation fields that run parallel to the label list
ParallelFields ==
    {"name", "truncated", "occluded", "alpha", "bbox", "dimensions",
     "location", "rotation_y", "score", "difficulty"}

\* how many objects of a label list are not of the ignore class
NumNotIgnored(obj_list) ==
    Cardinality({i \in 1..Len(obj_list) : obj_list[i].cls_type # IgnoreClass})

\* the lidar box of one labeled object: centre moved to the lidar frame and
\* up by half the height, length-width-height, yaw -(pi/2 + ry)
LidarBoxOf(obj) ==
    <<obj.loc[3], -obj.loc[1], -obj.loc[2] + obj.h \div 2,
      obj.l, obj.w, obj.h, -(1 + obj.ry)>>

\* the record get_infos owes for a frame id whose files are all there
InfoOf(sample_idx) ==
    process_single_scene(sample_idx, FileKinds, TRUE, TRUE).info

\* C1: get_infos returns one record per requested id, and the record at
\* position i is the record of the id at position i, whatever the number of
\* workers and the order in which they finish.
C1_InfosFollowIds ==
    gi_pc \in {"returned", "saved"} =>
        /\ Len(gi_ret) = Len(gi_ids)
        /\ \A i \in 1..Len(gi_ids) :
            /\ gi_ret[i].point_cloud.lidar_idx = gi_ids[i]
            /\ gi_ret[i].image.image_idx = gi_ids[i]
            /\ gi_ret[i] = InfoOf(gi_ids[i])

\* C1 witness: three frames, several workers, the frames finished in
\* another order than they were requested, and get_infos has returned
C1_Witness ==
    /\ gi_pc = "returned"
    /\ gi_ids = <<"3", "1", "2">>
    /\ gi_workers > 1
    /\ gi_order = <<3, 1, 2>>

\* a requested frame lacks its image, its label or its calibration file
SomeRequiredFileMissing ==
    \E i \in 1..Len(gi_ids) :
        {"image", "label", "calib"} \ gi_files[gi_ids[i]] # {}

\* C2: when the image, label or calibration file of a requested frame is
\* missing, get_infos returns no record list at all and create_coda_infos
\* writes no info file for the split.
C2_MissingFileAbortsBatch ==
    SomeRequiredFileMissing =>
        /\ gi_pc \notin {"returned", "saved"}
        /\ gi_ret = <<>>
        /\ gi_saved = NoFile

\* C2 witness: the second of three frames lacks its label file, the other
\* two were built, and get_infos has raised
C2_Witness ==
    /\ gi_pc = "raised"
    /\ Len(gi_ids) = 3
    /\ "label" \notin gi_files[gi_ids[2]]
    /\ gi_futures[1].ok /\ gi_futures[3].ok
    /\ gi_saved = NoFile

\* C3: in a record built with labels every parallel annotation field has
\* as many entries as the frame has labeled objects, and index and
\* gt_boxes_lidar have as many as it has objects not of the ignore class.
C3_AnnotationLengths ==
    (sc_pc \in {"check", "count", "done"} /\ "annos" \in DOMAIN sc_info) =>
        /\ ParallelFields \subseteq DOMAIN sc_info.annos
        /\ \A key \in ParallelFields :
                Len(sc_info.annos[key]) = Len(sc_objs)
        /\ Len(sc_info.annos.index) = NumNotIgnored(sc_objs)
        /\ Len(sc_info.annos.gt_boxes_lidar) = NumNotIgnored(sc_objs)

\* C3 witness: a finished record of a frame with three objects, an ignored
\* one between two that are not
C3_Witness ==
    /\ sc_pc = "done"
    /\ "annos" \in DOMAIN sc_info
    /\ Len(sc_objs) = 3
    /\ sc_objs[1].cls_type # IgnoreClass
    /\ sc_objs[2].cls_type = IgnoreClass
    /\ sc_objs[3].cls_type # IgnoreClass
    /\ Len(sc_info.annos.index) = 2

\* C4 (as claimed): num_points_in_gt has one entry per labeled object, every
\* object not of the ignore class has at its own position the number of
\* FOV-filtered points in its own box, and -1 stands only at positions
\* beyond the number of objects not of the ignore class.
C4_CountsStandAtTheirObject ==
    (/\ sc_pc = "done"
     /\ "annos" \in DOMAIN sc_info
     /\ "num_points_in_gt" \in DOMAIN sc_info.annos) =>
        LET counts == sc_info.annos.num_points_in_gt
            pts_fov == PtsFov(PointCloud, ImageShape)
        IN  /\ Len(counts) = Len(sc_objs)
            /\ \A j \in 1..Len(sc_objs) :
                    sc_objs[j].cls_type # IgnoreClass =>
                        /\ counts[j] >= 0
                        /\ counts[j] = CountInBox(pts_fov, LidarBoxOf(sc_objs[j]))
            /\ \A j \in 1..Len(sc_objs) :
                    counts[j] = -1 => j > NumNotIgnored(sc_objs)

\* the parallel arrays of a predicted annotation set
PredFields ==
    {"name", "truncated", "occluded", "alpha", "bbox", "dimensions",
     "location", "rotation_y", "score", "boxes_lidar"}

\* C5 (as claimed): every annotation set generate_prediction_dicts returns
\* has all its parallel arrays of one length, the number of detections kept
\* for the batch element, with no predictions and with predictions the
\* FOV filter removes.
C5_PredArraysEqualLength ==
    \A k \in 1..Len(pd_annos) :
        \A key \in PredFields :
            Len(pd_annos[k][key]) = Len(pd_annos[k].boxes_lidar)

\* the lines of every written file follow the kept detections of its batch
\* element, with this many fields each and the sizes at the places given
LinesFollowDetections(num_fields) ==
    /\ DOMAIN pd_out =
            IF pd_cfg.output THEN {pd_ids[k] : k \in 1..Len(pd_annos)} ELSE {}
    /\ \A k \in 1..Len(pd_annos) :
        pd_cfg.output =>
            LET anno == pd_annos[k]
                lines == pd_out[anno.frame_id]
            IN  /\ Len(lines) = Len(anno.score)
                /\ \A j \in 1..Len(lines) :
                    LET box == anno.boxes_lidar[j]
                    IN  /\ Len(lines[j]) = num_fields
                        /\ lines[j][1] = anno.name[j]
                        /\ lines[j][2] = "-1"
                        /\ lines[j][3] = "-1"
                        /\ lines[j][4] = Fmt4(anno.alpha[j])
                        /\ \A c \in 1..4 : lines[j][4 + c] = Fmt4(anno.bbox[j][c])
                        /\ lines[j][9] = Fmt4(box[6])
                        /\ lines[j][10] = Fmt4(box[5])
                        /\ lines[j][11] = Fmt4(box[4])
                        /\ \A c \in 1..3 :
                                lines[j][11 + c] = Fmt4(anno.location[j][c])
                        /\ lines[j][15] = Fmt4(anno.rotation_y[j])
                        /\ lines[j][16] = Fmt4(anno.score[j])

\* C6 (as claimed): each written line has exactly 14 space-separated fields
C6_FourteenFields ==
    \A f \in DOMAIN pd_out : \A j \in 1..Len(pd_out[f]) : Len(pd_out[f][j]) = 14

\* C6 (amended): with an output path, each batch element gets one file named
\* after its frame id with one line per kept detection, and each line has
\* exactly 16 fields: name, -1, -1, alpha, bbox x1, y1, x2, y2, height,
\* width, length, location x, y, z, yaw, score.
C6_SixteenFieldsInOrder == LinesFollowDetections(16)

\* C6 witness: two files are written, one of them with a line for the Car
\* predicted at (3, 2, 0) with length 4, width 1, height 2
C6_Witness ==
    /\ pd_pc = "done"
    /\ Cardinality(DOMAIN pd_out) = 2
    /\ \E f \in DOMAIN pd_out : \E j \in 1..Len(pd_out[f]) :
        /\ pd_out[f][j][1] = "Car"
        /\ pd_out[f][j][9] = "2.0000"
        /\ pd_out[f][j][10] = "1.0000"
        /\ pd_out[f][j][11] = "4.0000"
        /\ pd_out[f][j][16] = "9.0000"

\* C7 (as claimed): when no record of the corpus has annotations, the corpus
\* without records included, evaluation returns the empty result and does
\* not fail; and the scoring procedure is never called with a ground-truth
\* list in which a record lacks annotations.
C7_NoAnnotationsGivesEmptyResult ==
    ev_pc = "done" =>
        /\ (\A i \in 1..Len(ev_infos) : ~HasAnnos(ev_infos[i])) =>
                ev_result.kind = "empty"
        /\ ev_result.kind = "scored" =>
                /\ \A i \in 1..Len(ev_infos) : HasAnnos(ev_infos[i])
                /\ Len(ev_result.eval_gt_annos) = Len(ev_infos)

\* the record of a frame id in the info file create_groundtruth_database reads
DbInfoOf(sample_idx) ==
    db_infos[CHOOSE k \in 1..Len(db_infos) :
                db_infos[k].point_cloud.lidar_idx = sample_idx]

\* the index holds an entry for box i of the frame
HasEntry(sample_idx, i) ==
    \E c \in DOMAIN db_all : \E e \in Range(db_all[c]) :
        e.image_idx = sample_idx /\ e.gt_idx = i

\* C8: every cropped-point file holds exactly the source points the
\* membership test places in its object's lidar box, in source order, each
\* with x, y, z moved by minus the box centre and its feature unchanged.
C8_CroppedPointsRecentred ==
    \A fn \in DOMAIN db_files :
        LET box == DbInfoOf(fn[1]).annos.gt_boxes_lidar[fn[3]]
            inside == SelectSeq(PointCloud, LAMBDA p : point_in_box_cpu(p, box))
        IN  /\ Len(db_files[fn]) = Len(inside)
            /\ \A j \in 1..Len(inside) :
                    db_files[fn][j] =
                        <<inside[j][1] - box[1], inside[j][2] - box[2],
                          inside[j][3] - box[3], inside[j][4]>>

\* C8 witness: the run is over and the file of a box centred at (3, 2, 0)
\* holds the source point (4, 2, 0) with feature 8 as (1, 0, 0) with
\* feature 8, among several points
C8_Witness ==
    /\ db_pc = "done"
    /\ \E fn \in DOMAIN db_files :
        /\ DbInfoOf(fn[1]).annos.gt_boxes_lidar[fn[3]][1] = 3
        /\ DbInfoOf(fn[1]).annos.gt_boxes_lidar[fn[3]][2] = 2
        /\ Len(db_files[fn]) >= 3
        /\ <<1, 0, 0, 8>> \in Range(db_files[fn])

\* C9 (as claimed): with a class filter, a file is written for every object
\* that has a lidar box, the index has an entry for such an object exactly
\* when the object's class is in used_classes (always when the filter is
\* None), and the index has no key outside used_classes.
C9_IndexedIffClassInFilter ==
    db_pc = "done" =>
        /\ \A k \in 1..Len(db_infos) :
            LET annos == db_infos[k].annos
                sample_idx == db_infos[k].point_cloud.lidar_idx
            IN  \A i \in 1..Len(annos.gt_boxes_lidar) :
                    LET cls == annos.name[annos.index[i]]
                    IN  /\ \E fn \in DOMAIN db_files :
                                fn[1] = sample_idx /\ fn[3] = i
                        /\ HasEntry(sample_idx, i) <=>
                                (db_used.all \/ cls \in db_used.classes)
        /\ ~db_used.all => DOMAIN db_all \subseteq db_used.classes

\* C10: a second run in a row on the same info file and point clouds leaves
\* the cropped-point files and the class-to-entries index as the first run
\* left them, and no class list holds an entry twice.
C10_SecondRunChangesNothing ==
    (db_pc = "done" /\ db_run >= 2) =>
        /\ db_files = db_first.files
        /\ db_index = db_first.index
        /\ \A c \in DOMAIN db_index.infos :
            \A a, b \in 1..Len(db_index.infos[c]) :
                a # b => db_index.infos[c][a] # db_index.infos[c][b]

\* C10 witness: the second run is over, with several non-empty files on
\* disk and an index that has entries
C10_Witness ==
    /\ db_pc = "done"
    /\ db_run = 2
    /\ Cardinality({fn \in DOMAIN db_files : Len(db_files[fn]) > 0}) >= 2
    /\ db_index.written
    /\ \E c \in DOMAIN db_index.infos : Len(db_index.infos[c]) >= 2

\* round(n x ratio) for the ratio the claim gives: (1/K) / (n/D + 0.001)
RoundedDrawSize(n, D, K) ==
    LET num == n * EpsDen * D
        den == K * (EpsDen * n + D)
    IN  (2 * num + den) \div (2 * den)

\* the concatenation of a list of lists
RECURSIVE Concat(_)
Concat(seqs) ==
    IF seqs = <<>> THEN <<>> ELSE Head(seqs) \o Concat(Tail(seqs))

\* the records of the corpus with at least one object of the class
ClassRecords(cls) ==
    SelectSeq(rs_infos, LAMBDA info :
        \E j \in 1..Len(info.annos.name) : info.annos.name[j] = cls)

\* the multiply-counted memberships of the corpus
Memberships ==
    SumLen([c \in 1..Len(rs_names.names) |-> ClassRecords(rs_names.names[c])])

\* C11 (as claimed): the draw of each class has round(|classRecords| x
\* ratio) records, ratio = (1/numClasses) / (classShare + 0.001), all of
\* them records of that class's set; the resampled corpus is the draws
\* concatenated in vocabulary order and its size is the sum of those numbers.
C11_DrawSizesRounded ==
    /\ \A c \in 1..Len(rs_draws) :
        LET recs == ClassRecords(rs_names.names[c])
        IN  /\ Len(rs_draws[c]) =
                    RoundedDrawSize(Len(recs), Memberships, Len(rs_names.names))
            /\ Range(rs_draws[c]) \subseteq Range(recs)
    /\ (rs_pc = "returned" /\ ~rs_names.none) =>
        /\ rs_ret = Concat(rs_draws)
        /\ Len(rs_ret) = SumLen(rs_draws)

RECURSIVE FracLess(_, _, _, _)
\* a/b < c/d for positive b and d, by whole parts and then remainders, so
\* that no product is formed
FracLess(a, b, c, d) ==
    IF a \div b # c \div d THEN a \div b < c \div d
    ELSE IF c % d = 0 THEN FALSE
    ELSE IF a % b = 0 THEN TRUE
    ELSE FracLess(d, c % d, b, a % b)

\* one ratio <<a, b>> is strictly smaller than another <<c, d>>
RatioLess(r1, r2) == FracLess(r1[1], r1[2], r2[1], r2[2])

\* the two classes have been drawn, the first has the strictly larger share
\* of the memberships and the second has records
DrawnPair(a, b) ==
    /\ a \in 1..Len(rs_draws)
    /\ b \in 1..Len(rs_draws)
    /\ Len(rs_cls_infos[a]) > Len(rs_cls_infos[b])
    /\ Len(rs_cls_infos[b]) > 0

\* C12 (as claimed): for classes A and B with A's share strictly larger than
\* B's, A's ratio is strictly smaller than B's, and the number of records
\* drawn for B divided by the size of B's record set is at least the number
\* drawn for A divided by the size of A's record set.
C12_OversampledPerRecord ==
    \A a, b \in 1..Len(rs_draws) :
        DrawnPair(a, b) =>
            /\ RatioLess(rs_ratios[a], rs_ratios[b])
            /\ Len(rs_draws[b]) * Len(rs_cls_infos[a])
                    >= Len(rs_draws[a]) * Len(rs_cls_infos[b])

\* C12 (amended): for classes A and B with A's share strictly larger than
\* B's, A's ratio is strictly smaller than B's, and the number of records
\* drawn for B plus one, divided by the size of B's record set, is larger
\* than the number drawn for A divided by the size of A's record set: B is
\* oversampled relative to A up to the cut of the numbers to whole records.
C12_OversampledUpToOneRecord ==
    \A a, b \in 1..Len(rs_draws) :
        DrawnPair(a, b) =>
            /\ RatioLess(rs_ratios[a], rs_ratios[b])
            /\ (Len(rs_draws[b]) + 1) * Len(rs_cls_infos[a])
                    > Len(rs_draws[a]) * Len(rs_cls_infos[b])

\* C12 witness: the resampled corpus is returned; Car has three records and
\* Pedestrian one, and one record was drawn for each, so that Pedestrian's
\* records are drawn three times as often
C12_Witness ==
    /\ rs_pc = "returned"
    /\ rs_names.names = <<"Car", "Pedestrian">>
    /\ DrawnPair(1, 2)
    /\ Len(rs_cls_infos[1]) = 3
    /\ Len(rs_draws[1]) = 1
    /\ Len(rs_draws[2]) = 1

\* one point's pixel is in the image widened by the margin, and the point
\* is not behind the camera: with the pixel (f x/z + cu, f y/z + cv) of a
\* point in front of the camera, a point of depth 0 having no finite pixel
InWindow(p, img_shape, margin) ==
    LET u == Calib.f * p[1] + Calib.cu * p[3]
        v == Calib.f * p[2] + Calib.cv * p[3]
    IN  /\ p[3] > 0
        /\ (0 - margin) * p[3] <= u
        /\ u < (img_shape[2] + margin) * p[3]
        /\ (0 - margin) * p[3] <= v
        /\ v < (img_shape[1] + margin) * p[3]

\* C13: the mask of get_fov_flag has one entry per input point, in input
\* order, and entry i is true exactly when the pixel of point i satisfies
\* -margin <= x < width + margin and -margin <= y < height + margin and its
\* depth is >= 0; a point of negative depth is dropped for every pixel and
\* margin.
C13_MaskIsWindowAndDepth ==
    fv_pc = "done" =>
        /\ Len(fv_mask) = Len(fv_pts)
        /\ \A i \in 1..Len(fv_pts) :
            /\ fv_mask[i] <=> InWindow(fv_pts[i], fv_shape, fv_margin)
            /\ fv_pts[i][3] < 0 => ~fv_mask[i]

\* C13 witness: with margin 0 and a 4 x 4 image the point of pixel (0, 0)
\* and depth 1 is kept and the point of pixel x = 4 = width + margin is
\* dropped
C13_Witness ==
    /\ fv_pc = "done"
    /\ fv_margin = 0
    /\ fv_shape = <<4, 4>>
    /\ fv_pts = << <<-2, -2, 1>>, <<2, 0, 1>> >>
    /\ fv_mask = <<TRUE, FALSE>>

\* every field of an annotation set built with the point counts
AnnotationFields ==
    ParallelFields \cup {"index", "gt_boxes_lidar", "num_points_in_gt"}

\* C14: for a frame whose label file has no object (and whose files are all
\* there), process_single_scene returns a record whose annotation set has
\* every field present with length 0, num_points_in_gt included as an empty
\* sequence.
C14_EmptyFrameHasEmptyFields ==
    \A i \in 1..Len(gi_futures) :
        (/\ IsDone(gi_futures[i])
         /\ LabelOf(gi_ids[i]) = <<>>
         /\ gi_files[gi_ids[i]] = FileKinds) =>
            /\ gi_futures[i].ok
            /\ "annos" \in DOMAIN gi_futures[i].info
            /\ \A f \in AnnotationFields :
                /\ f \in DOMAIN gi_futures[i].info.annos
                /\ gi_futures[i].info.annos[f] = <<>>

\* C14 witness: the info file is written and holds the record of frame "3",
\* which has no object, with an empty num_points_in_gt, next to the record
\* of a frame with objects
C14_Witness ==
    /\ gi_pc = "saved"
    /\ \E i, j \in 1..Len(gi_saved.infos) :
        /\ gi_saved.infos[i].point_cloud.lidar_idx = "3"
        /\ gi_saved.infos[i].annos.num_points_in_gt = <<>>
        /\ gi_saved.infos[i].annos.bbox = <<>>
        /\ Len(gi_saved.infos[j].annos.name) > 0

\* what the resampler has drawn so far is made of whole records of the
\* input corpus, each drawn for a class it has an object of
DrawsAreClassRecords ==
    LET corpus == Range(rs_infos)
    IN  /\ \A c \in 1..Len(rs_draws) : \A k \in 1..Len(rs_draws[c]) :
            /\ rs_draws[c][k] \in corpus
            /\ \E j \in 1..Len(rs_draws[c][k].annos.name) :
                    rs_draws[c][k].annos.name[j] = rs_names.names[c]
        /\ Range(rs_sampled) \subseteq corpus
        /\ Range(rs_ret) \subseteq corpus

\* C15: balanced_infos_resampling changes no record of the input corpus and
\* not the corpus list; every element of the resampled corpus is a whole
\* record of the input corpus, and a record drawn for a class has at least
\* one object of that class.
C15_ResampleKeepsRecords ==
    /\ []DrawsAreClassRecords
    /\ [][rs_infos' = rs_infos]_vars

\* C15 witness: the resampled corpus is returned with the same record
\* twice in it, and the input corpus has a record without any object of the
\* vocabulary
C15_Witness ==
    /\ rs_pc = "returned"
    /\ ~rs_names.none
    /\ \E a, b \in 1..Len(rs_ret) : a # b /\ rs_ret[a] = rs_ret[b]
    /\ \E i \in 1..Len(rs_infos) :
        \A j \in 1..Len(rs_infos[i].annos.name) :
            rs_infos[i].annos.name[j] \notin Range(rs_names.names)

\* C16 (as claimed): every entry of the class-to-entries index describes one
\* labeled object: the object of its frame whose lidar box it stores (and
\* whose points were cropped) is the object its name, the class list it is
\* filed under, the class name of its path, its difficulty, its 2D bbox and
\* its score are taken from.
C16_EntryDescribesOneObject ==
    \A c \in DOMAIN db_all : \A n \in 1..Len(db_all[c]) :
        LET e == db_all[c][n]
            annos == DbInfoOf(e.image_idx).annos
            obj == annos.index[e.gt_idx]
        IN  /\ e.box3d_lidar = annos.gt_boxes_lidar[e.gt_idx]
            /\ e.name = annos.name[obj]
            /\ c = annos.name[obj]
            /\ e.path[2] = annos.name[obj]
            /\ e.difficulty = annos.difficulty[obj]
            /\ e.bbox = annos.bbox[obj]
            /\ e.score = annos.score[obj]

---------------------------------------------------------------------------
(* The specifications *)

\* the two components added last are not part of the run
IdleRest == IdleResample /\ IdleFov

StartScene ==
    InitScene /\ IdleInfos /\ IdleDb /\ IdlePred /\ IdleEval /\ IdleRest

StartInfos ==
    InitInfos /\ IdleScene /\ IdleDb /\ IdlePred /\ IdleEval /\ IdleRest

StartDb ==
    InitDb /\ IdleScene /\ IdleInfos /\ IdlePred /\ IdleEval /\ IdleRest

StartPred ==
    InitPred /\ IdleScene /\ IdleInfos /\ IdleDb /\ IdleEval /\ IdleRest

StartEval ==
    InitEval /\ IdleScene /\ IdleInfos /\ IdleDb /\ IdlePred /\ IdleRest

StartResample ==
    /\ InitResample
    /\ IdleScene /\ IdleInfos /\ IdleDb /\ IdlePred /\ IdleEval /\ IdleFov

StartFov ==
    /\ InitFov
    /\ IdleScene /\ IdleInfos /\ IdleDb /\ IdlePred /\ IdleEval /\ IdleResample

SpecScene == StartScene /\ [][NextScene]_vars

SpecInfos == StartInfos /\ [][NextInfos]_vars

SpecDb == StartDb /\ [][NextDb]_vars

SpecPred == StartPred /\ [][NextPred]_vars

SpecEval == StartEval /\ [][NextEval]_vars

SpecResample == StartResample /\ [][NextResample]_vars

SpecFov == StartFov /\ [][NextFov]_vars

=============================================================================
